---- MODULE Spec2Model ----
(***************************************************************************)
(* Model of src/scraper.py: main() fetches a page, parse_html() extracts   *)
(* records with the table / li / p heuristics, save_json() writes them.    *)
(*                                                                         *)
(* Text is a sequence of one-character strings.  An element (th, td, li,   *)
(* p) is the sequence of its descendant text strings in document order,    *)
(* which is all that get_text() reads of it.  A table is the sequence of   *)
(* its tr rows, a row being its th cells and its td cells in document      *)
(* order.  A record (a Python dict, insertion ordered) is a sequence of    *)
(* <<key, value>> pairs with pairwise distinct keys.                       *)
(***************************************************************************)
EXTENDS Integers, Sequences, FiniteSets, TLC

VARIABLES pc, html, data, strategy, written, exitStatus, parseCalls

vars == <<pc, html, data, strategy, written, exitStatus, parseCalls>>

\* ---------------------------------------------------------------- bounds
MaxRows == 2
MaxCols == 2
MaxItems == 2

None == "None"

\* ------------------------------------------------------------------ text
IsSpace(c) == c = " "

RECURSIVE LStrip(_)
LStrip(s) == IF s # <<>> /\ IsSpace(Head(s)) THEN LStrip(Tail(s)) ELSE s

RECURSIVE RStrip(_)
RStrip(s) ==
    IF s # <<>> /\ IsSpace(s[Len(s)]) THEN RStrip(SubSeq(s, 1, Len(s) - 1)) ELSE s

\* str.strip()
Strip(s) == RStrip(LStrip(s))

\* bs4 Tag._all_strings(strip=True): every descendant string stripped, the
\* ones that are empty after stripping left out.
RECURSIVE AllStrings(_)
AllStrings(el) ==
    IF el = <<>> THEN <<>>
    ELSE LET s == Strip(Head(el))
         IN  (IF s = <<>> THEN <<>> ELSE <<s>>) \o AllStrings(Tail(el))

\* separator.join(strings)
RECURSIVE Join(_, _)
Join(sep, strs) ==
    IF strs = <<>> THEN <<>>
    ELSE IF Len(strs) = 1 THEN Head(strs)
    ELSE Head(strs) \o sep \o Join(sep, Tail(strs))

\* el.get_text(sep, strip=True)
GetText(el, sep) == Join(sep, AllStrings(el))

\* th.get_text(strip=True), c.get_text(strip=True)
CellText(el) == GetText(el, <<>>)

\* li.get_text(" ", strip=True)
ItemText(el) == GetText(el, <<" ">>)

\* p.get_text(strip=True)
ParagraphText(el) == GetText(el, <<>>)

DigitChars == <<"0", "1", "2", "3", "4", "5", "6", "7", "8", "9">>

\* str(i) inside the f-string
RECURSIVE ToStr(_)
ToStr(n) ==
    IF n < 10 THEN <<DigitChars[n + 1]>>
    ELSE ToStr(n \div 10) \o <<DigitChars[(n % 10) + 1]>>

\* f"col_{i}"
ColKey(i) == <<"c", "o", "l", "_">> \o ToStr(i)

\* the key "text"
TextKey == <<"t", "e", "x", "t">>

\* ------------------------------------------------------------------ dict
Keys(d) == [i \in 1..Len(d) |-> d[i][1]]
Values(d) == [i \in 1..Len(d) |-> d[i][2]]
HasKey(d, k) == \E i \in 1..Len(d) : d[i][1] = k
KeyIndex(d, k) == CHOOSE i \in 1..Len(d) : d[i][1] = k
Lookup(d, k) == d[KeyIndex(d, k)][2]

\* d[k] = v: a key already present keeps its place and takes the new value.
DictSet(d, k, v) ==
    IF HasKey(d, k)
    THEN [i \in 1..Len(d) |-> IF d[i][1] = k THEN <<k, v>> ELSE d[i]]
    ELSE Append(d, <<k, v>>)

\* {keys[i]: texts[i] for i in range(len(texts))}
RECURSIVE DictComp(_, _, _)
DictComp(keys, texts, n) ==
    IF n = 0 THEN <<>>
    ELSE DictSet(DictComp(keys, texts, n - 1), keys[n], texts[n])

\* variant: {keys[i]: texts[i] for i in range(len(texts)) if texts[i]}
RECURSIVE DictCompNonEmpty(_, _, _)
DictCompNonEmpty(keys, texts, n) ==
    IF n = 0 THEN <<>>
    ELSE IF texts[n] = <<>> THEN DictCompNonEmpty(keys, texts, n - 1)
    ELSE DictSet(DictCompNonEmpty(keys, texts, n - 1), keys[n], texts[n])

\* ------------------------------------------------------------ parse_html
\* soup.find("table"): <<t>> for the first table t of the document, <<>> for
\* None (a Tag is truthy whatever it holds)
FindTable(doc) == IF doc.tables = <<>> THEN <<>> ELSE <<Head(doc.tables)>>

\* table.find_all("th"), in document order
RECURSIVE FindAllTh(_)
FindAllTh(table) ==
    IF table = <<>> THEN <<>> ELSE Head(table).ths \o FindAllTh(Tail(table))

\* headers = [th.get_text(strip=True) for th in table.find_all("th")]
Headers(table) ==
    LET ths == FindAllTh(table) IN [i \in 1..Len(ths) |-> CellText(ths[i])]

\* texts = [c.get_text(strip=True) for c in cells]
Texts(cells) == [i \in 1..Len(cells) |-> CellText(cells[i])]

\* variant: the header is used whenever it has a name for every cell
RowRecordNoLenCheck(headers, texts) ==
    IF headers # <<>> /\ Len(headers) >= Len(texts)
    THEN DictComp(headers, texts, Len(texts))
    ELSE DictComp([i \in 1..Len(texts) |-> ColKey(i - 1)], texts, Len(texts))

\* variant: cells with empty text set no field
RowRecordSkipEmpty(headers, texts) ==
    LET keys == IF headers # <<>> /\ Len(headers) = Len(texts)
                THEN headers ELSE [i \in 1..Len(texts) |-> ColKey(i - 1)]
    IN  DictCompNonEmpty(keys, texts, Len(texts))

\* the if/else that builds row from headers and texts
RowRecord(headers, texts) ==
    IF headers # <<>> /\ Len(headers) = Len(texts)
    THEN DictComp(headers, texts, Len(texts))
    ELSE DictComp([i \in 1..Len(texts) |-> ColKey(i - 1)], texts, Len(texts))

InResults(results, row) == \E i \in 1..Len(results) : results[i] = row

\* variant: a row equal to one already collected is not appended again
RECURSIVE TableRowsDedup(_, _, _)
TableRowsDedup(results, headers, trs) ==
    IF trs = <<>> THEN results
    ELSE LET cells == Head(trs).tds
             row == RowRecord(headers, Texts(cells))
         IN  IF cells = <<>> \/ InResults(results, row)
             THEN TableRowsDedup(results, headers, Tail(trs))
             ELSE TableRowsDedup(Append(results, row), headers, Tail(trs))

\* for tr in table.find_all("tr"): ... results.append(row)
RECURSIVE TableRows(_, _, _)
TableRows(results, headers, trs) ==
    IF trs = <<>> THEN results
    ELSE LET cells == Head(trs).tds
         IN  IF cells = <<>>
             THEN TableRows(results, headers, Tail(trs))
             ELSE TableRows(Append(results, RowRecord(headers, Texts(cells))),
                            headers, Tail(trs))

\* variant: every li is appended, its text empty or not
RECURSIVE ListItemsKeepEmpty(_, _)
ListItemsKeepEmpty(results, lis) ==
    IF lis = <<>> THEN results
    ELSE ListItemsKeepEmpty(Append(results, <<<<TextKey, ItemText(Head(lis))>>>>),
                            Tail(lis))

\* for li in lis: text = li.get_text(" ", strip=True); if text: append
RECURSIVE ListItems(_, _)
ListItems(results, lis) ==
    IF lis = <<>> THEN results
    ELSE LET text == ItemText(Head(lis))
         IN  IF text # <<>>
             THEN ListItems(Append(results, <<<<TextKey, text>>>>), Tail(lis))
             ELSE ListItems(results, Tail(lis))

\* ps = [p.get_text(strip=True) for p in soup.find_all("p") if p.get_text(strip=True)]
RECURSIVE ParagraphTexts(_)
ParagraphTexts(pels) ==
    IF pels = <<>> THEN <<>>
    ELSE (IF ParagraphText(Head(pels)) # <<>>
          THEN <<ParagraphText(Head(pels))>> ELSE <<>>)
         \o ParagraphTexts(Tail(pels))

\* for p in ps: results.append({"text": p})
ParagraphItems(results, ps) ==
    results \o [i \in 1..Len(ps) |-> <<<<TextKey, ps[i]>>>>]

\* variant: a strategy that produced no record falls through to the next one
ParseHtmlFallThrough(doc) ==
    LET found == FindTable(doc)
        rows == IF found # <<>>
                THEN TableRows(<<>>, Headers(found[1]), found[1]) ELSE <<>>
        items == ListItems(<<>>, doc.lis)
        ps == ParagraphTexts(doc.ps)
    IN  IF rows # <<>> THEN [strategy |-> "table", results |-> rows]
        ELSE IF items # <<>> THEN [strategy |-> "list", results |-> items]
        ELSE IF ps # <<>>
        THEN [strategy |-> "paragraph", results |-> ParagraphItems(<<>>, ps)]
        ELSE [strategy |-> "none", results |-> <<>>]

\* parse_html: the record list it returns and the branch that returned it
ParseHtml(doc) ==
    LET found == FindTable(doc)
    IN  IF found # <<>>
        THEN LET table == found[1]
             IN  [strategy |-> "table",
                  results |-> TableRows(<<>>, Headers(table), table)]
        ELSE IF doc.lis # <<>>
        THEN [strategy |-> "list", results |-> ListItems(<<>>, doc.lis)]
        ELSE LET ps == ParagraphTexts(doc.ps)
             IN  IF ps # <<>>
                 THEN [strategy |-> "paragraph",
                       results |-> ParagraphItems(<<>>, ps)]
                 ELSE [strategy |-> "none", results |-> <<>>]

\* ------------------------------------------------------------- documents
SeqsUpTo(S, n) == UNION {[1..k -> S] : k \in 0..n}

\* <th> N </th> and <th>col_<b>0</b></th>
HeaderElems == { << <<" ", "N", " ">> >>, << <<"c", "o", "l", "_">>, <<"0">> >> }

\* <td> </td> and <td>A <b>B</b></td>
CellElems == { << <<" ">> >>, << <<"A", " ">>, <<"B">> >> }

\* <li> <b> </b> </li>, <li>X</li>, <li>A <b> B</b></li> (and the same as p)
ItemElems ==
    { << <<" ">>, <<" ">>, <<" ">> >>, << <<"X">> >>, << <<"A", " ">>, <<" ", "B">> >> }

\* a header row of th cells (none when h is empty) followed by rows of td cells
MkTable(h, rows) ==
    (IF h = <<>> THEN <<>> ELSE <<[ths |-> h, tds |-> <<>>]>>)
    \o [i \in 1..Len(rows) |-> [ths |-> <<>>, tds |-> rows[i]]]

Tables ==
    {MkTable(h, rows) : h \in SeqsUpTo(HeaderElems, MaxCols),
                        rows \in SeqsUpTo(SeqsUpTo(CellElems, MaxCols), MaxRows)}

OtherTable == MkTable(<< << <<"N">> >> >>, << << << <<"X">> >> >> >>)

\* what stands around the first table: nothing, or a later table, li and p
Around ==
    {[more |-> <<>>, lis |-> <<>>, ps |-> <<>>],
     [more |-> <<OtherTable>>, lis |-> << << <<"X">> >> >>, ps |-> << << <<"X">> >> >>]}

TableDocs ==
    {[tables |-> <<t>> \o a.more, lis |-> a.lis, ps |-> a.ps] :
        t \in Tables, a \in Around}

PlainDocs ==
    {[tables |-> <<>>, lis |-> l, ps |-> p] :
        l \in SeqsUpTo(ItemElems, MaxItems), p \in SeqsUpTo(ItemElems, MaxItems)}

Docs == TableDocs \cup PlainDocs

\* ------------------------------------------------------------------ main
Init ==
    /\ pc = "start"
    /\ html = None
    /\ data = <<>>
    /\ strategy = None
    /\ written = <<>>
    /\ exitStatus = 0
    /\ parseCalls = 0

\* html = fetch(...) returns resp.text
FetchOk ==
    /\ pc = "start"
    /\ \E doc \in Docs : html' = doc
    /\ pc' = "fetched"
    /\ UNCHANGED <<data, strategy, written, exitStatus, parseCalls>>

\* variant: the failed fetch is logged and main returns normally
FetchFailExitZero ==
    /\ pc = "start"
    /\ pc' = "exit"
    /\ UNCHANGED <<html, data, strategy, written, exitStatus, parseCalls>>

\* fetch raises requests.RequestException: logged, raise SystemExit(1)
FetchFail ==
    /\ pc = "start"
    /\ pc' = "exit"
    /\ exitStatus' = 1
    /\ UNCHANGED <<html, data, strategy, written, parseCalls>>

\* data = parse_html(html)
Parse ==
    /\ pc = "fetched"
    /\ LET r == ParseHtml(html)
       IN  data' = r.results /\ strategy' = r.strategy
    /\ parseCalls' = parseCalls + 1
    /\ pc' = "parsed"
    /\ UNCHANGED <<html, written, exitStatus>>

\* save_json(data, Path(args.output)); main returns, the exit status stays 0
SaveJson ==
    /\ pc = "parsed"
    /\ written' = Append(written, data)
    /\ pc' = "exit"
    /\ UNCHANGED <<html, data, strategy, exitStatus, parseCalls>>

Next == FetchOk \/ FetchFail \/ Parse \/ SaveJson

Spec == Init /\ [][Next]_vars

\* ---------------------------------------------------------------- claims
\* parse_html has returned for the document held in html
Parsed == parseCalls > 0

HasTable == html.tables # <<>>
FirstTable == Head(html.tables)

\* the rows of the first table that have at least one td cell, in order
DataRows == SelectSeq(FirstTable, LAMBDA tr : tr.tds # <<>>)

\* the header sequence and the trimmed cell texts of the j-th such row
TableHeader == Headers(FirstTable)
RowTexts(j) == Texts(DataRows[j].tds)

\* the record the table strategy emitted for the j-th such row
RowRec(j) == data[j]

\* the table strategy ran and emitted one record per such row
TableCase == Parsed /\ HasTable /\ Len(data) = Len(DataRows)
ListCase == Parsed /\ ~HasTable /\ html.lis # <<>>

\* the name col_i, for i below ten
ColName(i) == <<"c", "o", "l", "_", DigitChars[i + 1]>>

\* what one strategy alone yields for its own elements
TableOutput == TableRows(<<>>, Headers(FirstTable), FirstTable)
ListOutput(els) == ListItems(<<>>, els)
ParagraphOutput(els) == ParagraphItems(<<>>, ParagraphTexts(els))

\* C1: parse_html returns the output of the first strategy, in the order
\* table, li, p, whose element is present; later strategies add nothing, also
\* when the chosen one produced no record; with no table, li or p the result
\* is empty.
C1_FirstPresentStrategyOnly ==
    Parsed =>
        IF HasTable
        THEN /\ data = TableOutput
             /\ DataRows = <<>> => data = <<>>
        ELSE IF html.lis # <<>>
        THEN data = ListOutput(html.lis)
        ELSE IF html.ps # <<>>
        THEN data = ParagraphOutput(html.ps)
        ELSE data = <<>>

\* a table without data rows beside a non-empty li yields the empty result
C1_Witness ==
    /\ Parsed /\ HasTable /\ DataRows = <<>>
    /\ ListOutput(html.lis) # <<>>
    /\ data = <<>>

\* C2: for a header H0..H(n-1), n >= 1, and a row of exactly n td cells, the
\* record maps every Hi to the trimmed text of the i-th cell, the fields in
\* column order.
C2_HeaderKeyedRecord ==
    TableCase =>
        \A j \in 1..Len(DataRows) :
            (TableHeader # <<>> /\ Len(TableHeader) = Len(RowTexts(j))) =>
                /\ \A i \in 1..Len(TableHeader) :
                       /\ HasKey(RowRec(j), TableHeader[i])
                       /\ Lookup(RowRec(j), TableHeader[i]) = RowTexts(j)[i]
                /\ \A i, l \in 1..Len(TableHeader) :
                       i < l => KeyIndex(RowRec(j), TableHeader[i])
                                  <= KeyIndex(RowRec(j), TableHeader[l])

\* C3 as stated: a row of m >= 1 cells under an empty header or one of length
\* n # m gets exactly the keys col_0 .. col_(m-1) in order, col_i mapped to
\* the i-th trimmed text, and no header name is a key of the record.
C3_PositionalNoHeaderName ==
    TableCase =>
        \A j \in 1..Len(DataRows) :
            (TableHeader = <<>> \/ Len(TableHeader) # Len(RowTexts(j))) =>
                /\ Keys(RowRec(j)) = [i \in 1..Len(RowTexts(j)) |-> ColName(i - 1)]
                /\ Values(RowRec(j)) = RowTexts(j)
                /\ \A h \in 1..Len(TableHeader) : ~HasKey(RowRec(j), TableHeader[h])

\* C3 as amended: such a row gets exactly the keys col_0 .. col_(m-1) in
\* order, col_i mapped to the i-th trimmed text; a header name is a key of
\* the record only when it is itself one of these positional names.
C3_PositionalKeys ==
    (Parsed /\ HasTable) =>
        LET hdr == TableHeader
            rows == DataRows
        IN  Len(data) = Len(rows) /\ \A j \in 1..Len(rows) :
                LET texts == Texts(rows[j].tds)
                    names == [i \in 1..Len(texts) |-> ColName(i - 1)]
                    keys == Keys(data[j])
                IN  (hdr = <<>> \/ Len(hdr) # Len(texts)) =>
                        /\ keys = names
                        /\ Values(data[j]) = texts
                        /\ \A h \in 1..Len(hdr) :
                               (\E i \in 1..Len(keys) : keys[i] = hdr[h]) =>
                                   \E i \in 1..Len(names) : hdr[h] = names[i]

\* a one-name header over a row of two cells: keys col_0, col_1
C3_Witness ==
    /\ TableCase
    /\ Len(TableHeader) = 1
    /\ \E j \in 1..Len(DataRows) :
           /\ Len(RowTexts(j)) = 2
           /\ RowTexts(j)[1] # RowTexts(j)[2]
           /\ Keys(RowRec(j)) = <<ColName(0), ColName(1)>>

\* C4: the table strategy emits exactly one record per row of the first table
\* that has a td cell, in the order of those rows; rows without td cells emit
\* nothing; records are neither reordered nor deduplicated.
C4_OneRecordPerDataRow ==
    (Parsed /\ HasTable) =>
        LET hdr == TableHeader
            rows == DataRows
        IN  /\ Len(data) = Len(rows)
            /\ \A j \in 1..Len(rows) :
                   data[j] = RowRecord(hdr, Texts(rows[j].tds))

\* a header-only row and two identical data rows: two equal records
C4_Witness ==
    /\ Parsed /\ HasTable
    /\ Len(FirstTable) = 3 /\ Len(DataRows) = 2
    /\ DataRows[1] = DataRows[2]
    /\ Len(data) = 2 /\ data[1] = data[2]

\* C5: with no table and some li, the result holds one record per li whose
\* trimmed text is non-empty, in document order, each with the single field
\* text holding that text; an li with empty trimmed text emits nothing.
C5_ListRecords ==
    ListCase =>
        LET texts == [i \in 1..Len(html.lis) |-> GetText(html.lis[i], <<" ">>)]
            kept == SelectSeq(texts, LAMBDA t : t # <<>>)
        IN  /\ Len(data) = Len(kept)
            /\ \A j \in 1..Len(kept) : data[j] = << <<TextKey, kept[j]>> >>

\* an empty li before a non-empty one: one record
C5_Witness ==
    /\ ListCase
    /\ Len(html.lis) = 2
    /\ GetText(html.lis[1], <<" ">>) = <<>>
    /\ Len(data) = 1
    /\ data[1] = << <<TextKey, GetText(html.lis[2], <<" ">>)>> >>

\* C6: the paragraph strategy yields for p elements the applicability and the
\* records the list strategy yields for li elements with the same text
\* segments; the text value is the segments joined with single spaces.
C6_ParagraphAsList ==
    (Parsed /\ ~HasTable /\ html.lis = <<>>) =>
        /\ data = ListOutput(html.ps)
        /\ (strategy = "paragraph") <=> (html.ps # <<>>)

\* C7: output is written iff the fetch succeeded: a failed fetch ends with
\* exit status 1 and neither parse_html nor save_json has run; after a
\* successful fetch parse_html runs, then save_json runs exactly once on the
\* records parse_html returned, an empty record list included, and the run
\* does not end with a failure status.
C7_WrittenIffFetched ==
    /\ Len(written) <= 1 /\ parseCalls <= 1
    /\ exitStatus \in {0, 1}
    /\ exitStatus = 1 => (pc = "exit" /\ parseCalls = 0 /\ written = <<>>)
    /\ written # <<>> =>
           (pc = "exit" /\ exitStatus = 0 /\ parseCalls = 1 /\ written = <<data>>)
    /\ (pc = "exit" /\ exitStatus = 0) =>
           (parseCalls = 1 /\ written = <<ParseHtml(html).results>>)
    /\ pc = "fetched" => (parseCalls = 0 /\ written = <<>>)
    /\ pc = "parsed" => (parseCalls = 1 /\ written = <<>>)

\* the run that extracted nothing still wrote its (empty) result and ended 0
C7_Witness ==
    /\ pc = "exit" /\ parseCalls = 1
    /\ data = <<>> /\ written = <<<<>>>> /\ exitStatus = 0

\* C9: the record of a row with k td cells has exactly k fields, one per
\* cell, whatever the header.
C9_OneFieldPerCell ==
    TableCase =>
        \A j \in 1..Len(DataRows) : Len(RowRec(j)) = Len(RowTexts(j))

====
